---- MODULE Spec2Model ----
(***************************************************************************)
(* A model of src/script.js (Smart Image Resizer): the batch state, the     *)
(* file-list handlers, the dimension fields and the asynchronous resize     *)
(* handlers.  Every action is one run-to-completion block of the script:    *)
(* a handler from its entry to its first await, or the continuation that    *)
(* runs when an awaited promise settles.  Handlers are entered whenever     *)
(* the script's own conditions allow it; the script never disables a        *)
(* control while another handler is suspended at an await, so blocks of     *)
(* different handler invocations interleave.                                *)
(*                                                                         *)
(* Left out: rendering (file list, preview, zoom, comparison slider,        *)
(* progress bar, theme, icons, service worker), which no other part of      *)
(* the modelled state reads.  state.aspectRatio is kept as the reduced      *)
(* fraction whose quotient the script stores as a double; what the script   *)
(* computes from it is computed in double arithmetic.                       *)
(***************************************************************************)
EXTENDS Integers, Sequences, FiniteSets, TLC

\* ------------------------------------------------------------------ bounds
\* Handler invocations suspended at an await at the same time.
MaxTasks == 2
\* Files in one submission to handleFiles.
MaxSubmit == 2

\* ------------------------------------------------------- program constants
\* 50 * 1024 * 1024
maxSize == 52428800
\* the largest accepted target dimension
MaxDimension == 10000

validTypes == {"image/jpeg", "image/png", "image/webp", "image/gif", "image/bmp", "image/tiff"}

\* ------------------------------------------------------------ the inputs
\* The files a user can submit: name, declared MIME type, byte size, and
\* what decoding them gives (whether the Image loads, and its natural size).
FileA == [name |-> <<"a", ".", "j", "p", "g">>, type |-> "image/jpeg", size |-> 1000, decodes |-> TRUE, w |-> 4, h |-> 2]
FileB == [name |-> <<"b", ".", "p", "n", "g">>, type |-> "image/png", size |-> 52428800, decodes |-> TRUE, w |-> 3, h |-> 3]
FileBad == [name |-> <<"x", ".", "g", "i", "f">>, type |-> "image/gif", size |-> 1000, decodes |-> FALSE, w |-> 0, h |-> 0]
FileTxt == [name |-> <<"t", ".", "t", "x", "t">>, type |-> "text/plain", size |-> 1000, decodes |-> TRUE, w |-> 0, h |-> 0]
FileBig == [name |-> <<"y", ".", "j", "p", "g">>, type |-> "image/jpeg", size |-> 52428801, decodes |-> TRUE, w |-> 4, h |-> 2]

\* a wide image with two dots in its name
FileC == [name |-> <<"c", ".", "v", "2", ".", "p", "n", "g">>, type |-> "image/png", size |-> 2000, decodes |-> TRUE, w |-> 18, h |-> 7]

FilePool == {FileA, FileB, FileBad, FileTxt, FileBig}

\* every file of the specifications below
AllFiles == FilePool \cup {FileC}

RECURSIVE SeqsUpTo(_, _)
SeqsUpTo(S, n) ==
    IF n = 0 THEN {<<>>}
    ELSE LET shorter == SeqsUpTo(S, n - 1)
         IN shorter \cup {Append(s, x) : s \in {q \in shorter : Len(q) = n - 1}, x \in S}

Submissions == SeqsUpTo(FilePool, MaxSubmit) \ {<<>>}

\* What a user can type into a dimension field, as the field's text.
FieldTexts == {<<>>, <<"0">>, <<"-", "3">>, <<"1", "0", "0", "0", "0">>, <<"1", "0", "0", "0", "1">>}

\* what is typed into the fields of an image of another shape than 1:1 or 2:1
AspectTexts == {<<>>, <<"9">>, <<"7">>, <<"3", "6">>}

\* format buttons: data-format and data-ext
FormatButtons == {<<"image/jpeg", "jpg">>, <<"image/png", "png">>}

\* positions of the quality slider
QualityValues == {90, 50}

\* byte sizes of the blobs canvasToBlob can give
BlobSizes == {600, 1000, 1500, 1997}

\* ------------------------------------------------- numbers and field text
\* A JavaScript number as far as the script uses one: NaN or an integer.
NaN == [nan |-> TRUE, val |-> 0]
Num(n) == [nan |-> FALSE, val |-> n]

IsDigit(c) == c \in {"0", "1", "2", "3", "4", "5", "6", "7", "8", "9"}

DigitVal(c) ==
    CASE c = "0" -> 0 [] c = "1" -> 1 [] c = "2" -> 2 [] c = "3" -> 3 [] c = "4" -> 4
      [] c = "5" -> 5 [] c = "6" -> 6 [] c = "7" -> 7 [] c = "8" -> 8 [] c = "9" -> 9

DigitChar(d) ==
    CASE d = 0 -> "0" [] d = 1 -> "1" [] d = 2 -> "2" [] d = 3 -> "3" [] d = 4 -> "4"
      [] d = 5 -> "5" [] d = 6 -> "6" [] d = 7 -> "7" [] d = 8 -> "8" [] d = 9 -> "9"

\* the longest prefix of s made of digits
RECURSIVE DigitPrefix(_)
DigitPrefix(s) ==
    IF s = <<>> \/ ~IsDigit(Head(s)) THEN <<>>
    ELSE <<Head(s)>> \o DigitPrefix(Tail(s))

RECURSIVE DigitsValue(_, _)
DigitsValue(s, acc) ==
    IF s = <<>> THEN acc ELSE DigitsValue(Tail(s), 10 * acc + DigitVal(Head(s)))

\* parseInt(text): an optional sign, then the leading digits; NaN without any.
ParseInt(s) ==
    LET signed == s # <<>> /\ Head(s) \in {"-", "+"}
        body == IF signed THEN Tail(s) ELSE s
        ds == DigitPrefix(body)
    IN IF ds = <<>> THEN NaN
       ELSE IF signed /\ Head(s) = "-" THEN Num(0 - DigitsValue(ds, 0))
       ELSE Num(DigitsValue(ds, 0))

RECURSIVE NatText(_)
NatText(n) ==
    IF n < 10 THEN <<DigitChar(n)>> ELSE Append(NatText(n \div 10), DigitChar(n % 10))

\* the text a field shows after `field.value = n`
NumberText(n) == IF n < 0 THEN <<"-">> \o NatText(0 - n) ELSE NatText(n)

RECURSIVE Gcd(_, _)
Gcd(a, b) == IF b = 0 THEN a ELSE Gcd(b, a % b)

\* w / h as a reduced fraction <<numerator, denominator>>
Ratio(w, h) == LET g == Gcd(w, h) IN <<w \div g, h \div g>>

\* ------------------------------------------------- IEEE 754 doubles
\* The script's quotients and products are those of JavaScript numbers.  A
\* natural number of any size is kept as the sequence of its digits to the
\* base 2^15, least significant first and without high zeros; a positive
\* double is a significand m of 53 binary digits with an exponent e and
\* stands for m * 2^e.
Precision == 53
LimbBits == 15
Base == 32768

Highest(S) == CHOOSE k \in S : \A j \in S : j <= k

Trim(a) ==
    LET used == {k \in 1..Len(a) : a[k] # 0}
    IN IF used = {} THEN <<>> ELSE SubSeq(a, 1, Highest(used))

\* a natural number below 2^30
LimbsOf(n) == Trim(<<n % Base, (n \div Base) % Base, n \div (Base * Base)>>)

Limb(a, k) == IF k <= Len(a) THEN a[k] ELSE 0

\* a number known to be below 2^31
SmallValue(a) == Limb(a, 1) + Base * Limb(a, 2) + Base * Base * Limb(a, 3)

\* a >= b
Geq(a, b) ==
    LET differ == {k \in 1..(IF Len(a) > Len(b) THEN Len(a) ELSE Len(b)) : Limb(a, k) # Limb(b, k)}
    IN differ = {} \/ Limb(a, Highest(differ)) > Limb(b, Highest(differ))

\* a * c + carry for 0 < c < 2^15 and carry < 2^15
RECURSIVE MulAdd(_, _, _)
MulAdd(a, c, carry) ==
    IF a = <<>> THEN LimbsOf(carry)
    ELSE LET d == Head(a) * c + carry
         IN <<d % Base>> \o MulAdd(Tail(a), c, d \div Base)

\* a - b - borrow for a >= b + borrow
RECURSIVE SubBorrow(_, _, _)
SubBorrow(a, b, borrow) ==
    IF a = <<>> THEN <<>>
    ELSE LET d == Head(a) - Limb(b, 1) - borrow
             rest == IF b = <<>> THEN <<>> ELSE Tail(b)
         IN IF d < 0
            THEN <<d + Base>> \o SubBorrow(Tail(a), rest, 1)
            ELSE <<d>> \o SubBorrow(Tail(a), rest, 0)

Sub(a, b) == Trim(SubBorrow(a, b, 0))

\* the number of binary digits of a limb
LimbLength(n) == CHOOSE l \in 0..LimbBits : n < 2^l /\ (l = 0 \/ n >= 2^(l - 1))

BitLength(a) == IF a = <<>> THEN 0 ELSE LimbBits * (Len(a) - 1) + LimbLength(a[Len(a)])

\* the binary digit of weight 2^p
Bit(a, p) == (Limb(a, p \div LimbBits + 1) \div 2^(p % LimbBits)) % 2

\* the binary digits of weight below 2^k are all zero
LowBitsZero(a, k) == \A p \in 0..(k - 1) : Bit(a, p) = 0

\* a * 2^k
ShiftLeft(a, k) ==
    IF a = <<>> THEN <<>>
    ELSE [j \in 1..(k \div LimbBits) |-> 0] \o MulAdd(a, 2^(k % LimbBits), 0)

\* floor(a / 2^k)
ShiftRight(a, k) ==
    LET whole == k \div LimbBits
        part == k % LimbBits
    IN Trim([j \in 1..(IF Len(a) > whole THEN Len(a) - whole ELSE 0) |->
                Limb(a, j + whole) \div 2^part
                  + (Limb(a, j + whole + 1) % 2^part) * 2^(LimbBits - part)])

\* Long division of n by d, a binary digit of n at a time, from the top.  The
\* state is the quotient and the remainder so far, and how many digits of n
\* are left to bring down.  DivideDigits brings down at most `count` digits,
\* LongDiv all of them, a block at a time.
RECURSIVE DivideDigits(_, _, _, _)
DivideDigits(n, d, count, st) ==
    IF count = 0 \/ st.left = 0 THEN st
    ELSE LET r == MulAdd(st.rem, 2, Bit(n, st.left - 1))
         IN IF Geq(r, d)
            THEN DivideDigits(n, d, count - 1,
                              [quo |-> MulAdd(st.quo, 2, 1), rem |-> Sub(r, d), left |-> st.left - 1])
            ELSE DivideDigits(n, d, count - 1,
                              [quo |-> MulAdd(st.quo, 2, 0), rem |-> r, left |-> st.left - 1])

DivideBlock == 8

RECURSIVE LongDiv(_, _, _)
LongDiv(n, d, st) ==
    IF st.left = 0 THEN st ELSE LongDiv(n, d, DivideDigits(n, d, DivideBlock, st))

\* The double nearest to q * 2^e (plus something below the last digit of q
\* when `sticky`), a tie going to the even significand.
RoundToDouble(q, sticky, e) ==
    LET length == BitLength(q)
        shift == length - Precision
    IN IF length = 0 THEN [m |-> <<>>, e |-> 0]
       ELSE IF shift <= 0 THEN [m |-> ShiftLeft(q, 0 - shift), e |-> e + shift]
       ELSE LET keep == ShiftRight(q, shift)
                below == sticky \/ ~LowBitsZero(q, shift - 1)
                up == Bit(q, shift - 1) = 1 /\ (below \/ Bit(keep, 0) = 1)
                m == IF up THEN MulAdd(keep, 1, 1) ELSE keep
            IN IF BitLength(m) > Precision
               THEN [m |-> ShiftRight(m, 1), e |-> e + shift + 1]
               ELSE [m |-> m, e |-> e + shift]

\* (n * 2^ne) / (d * 2^de) as a double, for positive n and d
DivToDouble(n, ne, d, de) ==
    LET wanted == Precision + 2 + BitLength(d) - BitLength(n)
        s == IF wanted > 0 THEN wanted ELSE 0
        q == LongDiv(ShiftLeft(n, s), d, [quo |-> <<>>, rem |-> <<>>, left |-> BitLength(n) + s])
    IN RoundToDouble(q.quo, q.rem # <<>>, ne - de - s)

\* a / b for positive integers
DoubleOfQuotient(a, b) == DivToDouble(LimbsOf(a), 0, LimbsOf(b), 0)

\* w / x for a positive integer w and a positive double x
IntOverDouble(w, x) == DivToDouble(LimbsOf(w), 0, x.m, x.e)

\* x * c for a positive double x and a positive integer c
DoubleTimesInt(x, c) == RoundToDouble(MulAdd(x.m, c, 0), FALSE, x.e)

\* floor(2 * m * 2^e), a number below 2^30, and whether 2 * m * 2^e is an integer
TwiceFloor(x) ==
    IF x.e >= -1 THEN SmallValue(ShiftLeft(x.m, x.e + 1))
    ELSE SmallValue(ShiftRight(x.m, 0 - x.e - 1))

TwiceIsInteger(x) == x.e >= -1 \/ LowBitsZero(x.m, 0 - x.e - 1)

\* Math.round of a number of magnitude m * 2^e: the nearest integer, a half
\* goes towards +Infinity
MathRound(negative, x) ==
    IF ~negative THEN (TwiceFloor(x) + 1) \div 2
    ELSE IF TwiceIsInteger(x) THEN 0 - (TwiceFloor(x) \div 2)
    ELSE 0 - ((TwiceFloor(x) + 1) \div 2)

\* Math.round(w / state.aspectRatio)
HeightForWidth(w, ratio) ==
    IF w = 0 THEN 0
    ELSE MathRound(w < 0, IntOverDouble(IF w < 0 THEN 0 - w ELSE w,
                                        DoubleOfQuotient(ratio[1], ratio[2])))

\* Math.round(h * state.aspectRatio)
WidthForHeight(h, ratio) ==
    IF h = 0 THEN 0
    ELSE MathRound(h < 0, DoubleTimesInt(DoubleOfQuotient(ratio[1], ratio[2]),
                                         IF h < 0 THEN 0 - h ELSE h))

\* The numbers the fields can be made to read and the aspect ratios the
\* images can give, and the two roundings tabulated over them.
FieldValues == {ParseInt(text).val : text \in {t \in FieldTexts \cup AspectTexts : ~ParseInt(t).nan}}

ImageShapes == {Ratio(f.w, f.h) : f \in {g \in AllFiles : g.w > 0}} \cup {<<1, 1>>}

RoundedHeights == {<<w, ratio, HeightForWidth(w, ratio)>> : w \in FieldValues, ratio \in ImageShapes}

RoundedWidths == {<<h, ratio, WidthForHeight(h, ratio)>> : h \in FieldValues, ratio \in ImageShapes}

\* ------------------------------------------------------------ showResults
\* x.toFixed(1) for x = m * 2^e: the digits of the integer nearest to 10 * x,
\* the larger one at a tie, with a point before the last digit
ToFixed1(x) ==
    LET n == MathRound(FALSE, [m |-> MulAdd(x.m, 10, 0), e |-> x.e])
    IN NatText(n \div 10) \o <<".", DigitChar(n % 10)>>

\* ((bytes / origSize) * 100).toFixed(1)
PercentOf(bytes, origSize) == ToFixed1(DoubleTimesInt(DoubleOfQuotient(bytes, origSize), 100))

\* SavedPercentText with the percentage taken of the resized size
SavedPercentOfResized(origSize, resizedSize) ==
    IF origSize - resizedSize > 0
    THEN <<PercentOf(origSize - resizedSize, resizedSize), "smaller">>
    ELSE <<PercentOf(resizedSize - origSize, resizedSize), "larger">>

\* what showResults writes into dom.savedPercent
SavedPercentText(origSize, resizedSize) ==
    IF origSize - resizedSize > 0
    THEN <<PercentOf(origSize - resizedSize, origSize), "smaller">>
    ELSE <<PercentOf(resizedSize - origSize, origSize), "larger">>

\* the sizes of the images, and showResults tabulated over them and the
\* sizes of the blobs
OriginalSizes == {f.size : f \in {g \in AllFiles : g.w > 0}}

ShownStats == {<<o, r, SavedPercentText(o, r)>> : o \in OriginalSizes, r \in BlobSizes}

\* showResults(item) for an item that holds a resized blob
showResults(item) ==
    (CHOOSE row \in ShownStats : row[1] = item.originalSize /\ row[2] = item.resizedBlob.size)[3]

\* ------------------------------------------------------------------ state
VARIABLES
    files,          \* state.files: the item objects in display order (by identity)
    items,          \* every item object ever created by loadImage, by identity
    activeIndex,    \* state.activeIndex (0-based, as in the script)
    aspectLocked,   \* state.aspectLocked
    aspectRatio,    \* state.aspectRatio
    originalWidth,  \* state.originalWidth
    originalHeight, \* state.originalHeight
    outputFormat,   \* state.outputFormat
    outputExt,      \* state.outputExt
    widthInput,     \* dom.widthInput.value
    heightInput,    \* dom.heightInput.value
    overlay,        \* the processing overlay is shown
    toast,          \* the last toast shown: <<message, count>>
    urls,           \* every object URL ever created: the item it was made for, and whether it is revoked
    tasks,          \* the handler invocations suspended at an await
    picaInstance,   \* whether window.pica was there at start-up
    quality,        \* state.quality, as the position of the slider (quality * 100)
    savedPercent,   \* dom.savedPercent.textContent: <<percentage, "smaller" or "larger">>
    download        \* the last call of triggerDownload: its url and its filename

vars == <<files, items, activeIndex, aspectLocked, aspectRatio, originalWidth, originalHeight,
          outputFormat, outputExt, widthInput, heightInput, overlay, toast, urls, tasks,
          picaInstance, quality, savedPercent, download>>

\* item.resizedBlob = null, item.resizedUrl = null
NullBlob == [w |-> 0, h |-> 0, fmt |-> "null", quality |-> 0, size |-> 0]
NullUrl == 0

NoToast == <<"", 0>>

\* dom.savedPercent before showResults ran
NoStats == <<<<>>, "">>

\* before triggerDownload ran
NoDownload == [url |-> NullUrl, filename |-> <<>>]

\* a slot of `tasks` that holds no invocation
\* the fields of an invocation: its locals, and what is recorded of its
\* history for the properties (submitted, appended, begun, startFormat,
\* startQuality, resetSince), which the script's code does not read
Idle ==
    [kind |-> "idle", pc |-> "-", item |-> 0, i |-> 0, tw |-> 0, th |-> 0, fmt |-> "-",
     completed |-> 0, newFiles |-> <<>>, submitted |-> <<>>, appended |-> <<>>, begun |-> <<>>,
     quality |-> 0, startFormat |-> "-", startQuality |-> 0, resetSince |-> {},
     resizedFiles |-> <<>>, w |-> NaN, h |-> NaN]

TaskIds == 1..MaxTasks

\* where an invocation is suspended inside resizeImage: on the Image load, on
\* pica.resize, on canvasToBlob
PipelinePcs == {"decode", "resample", "encode"}

\* The invocation started now takes the first free slot.
FreeSlot == CHOOSE t \in TaskIds : tasks[t].kind = "idle" /\ \A u \in 1..(t - 1) : tasks[u].kind # "idle"
HasFreeSlot == \E t \in TaskIds : tasks[t].kind = "idle"

RECURSIVE SumSeq(_)
SumSeq(s) == IF s = <<>> THEN 0 ELSE Head(s) + SumSeq(Tail(s))

\* files that suspended handleFiles invocations have still to load
PendingLoads == SumSeq([t \in TaskIds |-> Len(tasks[t].newFiles) - tasks[t].i])

\* the item at a 0-based index of state.files
ItemAt(fs, its, index) == its[fs[index + 1]]

Remove(s, k) == SubSeq(s, 1, k - 1) \o SubSeq(s, k + 1, Len(s))

\* URL.revokeObjectURL(u) over a set of URLs
Revoke(us, S) == [u \in DOMAIN us |-> IF u \in S THEN [us[u] EXCEPT !.revoked = TRUE] ELSE us[u]]

\* ------------------------------------------------------------- selectFile
\* What selectFile reads and writes, as one record.
Selection ==
    [activeIndex |-> activeIndex, originalWidth |-> originalWidth, originalHeight |-> originalHeight,
     aspectRatio |-> aspectRatio, widthInput |-> widthInput, heightInput |-> heightInput,
     savedPercent |-> savedPercent]

\* selectFile(index) on the file list fs with the item objects its
selectFile(index, fs, its, cur) ==
    IF index < 0 \/ index >= Len(fs) THEN cur
    ELSE LET item == ItemAt(fs, its, index)
         IN [activeIndex |-> index,
             originalWidth |-> item.naturalWidth,
             originalHeight |-> item.naturalHeight,
             aspectRatio |-> Ratio(item.naturalWidth, item.naturalHeight),
             widthInput |-> NumberText(item.naturalWidth),
             heightInput |-> NumberText(item.naturalHeight),
             savedPercent |-> IF item.resizedBlob # NullBlob THEN showResults(item)
                              ELSE cur.savedPercent]

SetSelection(s) ==
    /\ activeIndex' = s.activeIndex
    /\ originalWidth' = s.originalWidth
    /\ originalHeight' = s.originalHeight
    /\ aspectRatio' = s.aspectRatio
    /\ widthInput' = s.widthInput
    /\ heightInput' = s.heightInput
    /\ savedPercent' = s.savedPercent

\* ------------------------------------------------------------------- Init
Init ==
    /\ files = <<>>
    /\ items = <<>>
    /\ activeIndex = 0
    /\ aspectLocked = TRUE
    /\ aspectRatio = <<1, 1>>
    /\ originalWidth = 0
    /\ originalHeight = 0
    /\ outputFormat = "image/jpeg"
    /\ outputExt = "jpg"
    /\ widthInput = <<>>
    /\ heightInput = <<>>
    /\ overlay = FALSE
    /\ toast = NoToast
    /\ urls = <<>>
    /\ tasks = [t \in TaskIds |-> Idle]
    /\ picaInstance \in BOOLEAN
    /\ quality = 90
    /\ savedPercent = NoStats
    /\ download = NoDownload

\* -------------------------------------------------------------- handleFiles
\* Accepts with the size limit exclusive
AcceptsBelowLimit(file) == file.type \in validTypes /\ ~(file.size >= maxSize)

\* the two checks of the validation loop
Accepts(file) == file.type \in validTypes /\ ~(file.size > maxSize)

\* the toast the validation loop leaves: that of the last rejected file
RECURSIVE RejectionToast(_, _)
RejectionToast(fileList, cur) ==
    IF fileList = <<>> THEN cur
    ELSE LET file == Head(fileList)
         IN RejectionToast(Tail(fileList),
                IF file.type \notin validTypes THEN <<"Unsupported format", 0>>
                ELSE IF file.size > maxSize THEN <<"File too large", 0>>
                ELSE cur)

\* loadImage's result object
LoadedItem(file) ==
    [name |-> file.name, naturalWidth |-> file.w, naturalHeight |-> file.h,
     originalSize |-> file.size, resizedBlob |-> NullBlob, resizedUrl |-> NullUrl]

\* handleFiles(fileList) up to its first await
handleFiles(fileList) ==
    LET newFiles == SelectSeq(fileList, Accepts)
    IN /\ toast' = RejectionToast(fileList, toast)
       /\ IF newFiles = <<>>
          THEN UNCHANGED <<overlay, tasks>>
          ELSE /\ HasFreeSlot
               /\ overlay' = TRUE
               /\ tasks' = [tasks EXCEPT ![FreeSlot] =
                              [Idle EXCEPT !.kind = "handleFiles", !.pc = "load",
                                           !.newFiles = newFiles, !.submitted = fileList]]
       /\ UNCHANGED <<files, items, activeIndex, aspectLocked, aspectRatio, originalWidth,
                      originalHeight, outputFormat, outputExt, widthInput, heightInput, urls,
                      picaInstance, quality, savedPercent, download>>

\* The awaited loadImage(newFiles[i]) settles: the rest of the loop body, and
\* either the next loadImage or the end of handleFiles.
LoadSettles(t) ==
    /\ tasks[t].kind = "handleFiles"
    /\ LET task == tasks[t]
           n == Len(task.newFiles)
           file == task.newFiles[task.i + 1]
           its == IF file.decodes THEN Append(items, LoadedItem(file)) ELSE items
           fs == IF file.decodes THEN Append(files, Len(its)) ELSE files
           failed == IF file.decodes THEN toast ELSE <<"Failed to load", 0>>
       IN /\ items' = its
          /\ files' = fs
          /\ IF task.i + 1 < n
             THEN /\ tasks' = [tasks EXCEPT ![t].i = task.i + 1,
                                            ![t].appended = IF file.decodes
                                                            THEN Append(task.appended, Len(its))
                                                            ELSE task.appended]
                  /\ toast' = failed
                  /\ UNCHANGED <<overlay, activeIndex, originalWidth, originalHeight, aspectRatio,
                                 widthInput, heightInput, savedPercent>>
             ELSE /\ tasks' = [tasks EXCEPT ![t] = Idle]
                  /\ overlay' = FALSE
                  /\ IF Len(fs) > 0
                     THEN /\ SetSelection(selectFile(Len(fs) - n, fs, its, Selection))
                          /\ toast' = <<"Images loaded", n>>
                     ELSE /\ toast' = failed
                          /\ UNCHANGED <<activeIndex, originalWidth, originalHeight, aspectRatio,
                                         widthInput, heightInput, savedPercent>>
    /\ UNCHANGED <<aspectLocked, outputFormat, outputExt, urls, picaInstance, quality, download>>

\* ------------------------------------------------ file list: select, remove
\* a click on a row of the rendered file list: selectFile(index); renderFileList()
SelectClick(index) ==
    /\ index \in 0..(Len(files) - 1)
    /\ SetSelection(selectFile(index, files, items, Selection))
    /\ UNCHANGED <<files, items, aspectLocked, outputFormat, outputExt, overlay, toast, urls,
                   tasks, picaInstance, quality, download>>

\* the object URLs clearAll revokes: the resizedUrl of every item of fs
UrlsOf(fs, its) == {its[fs[k]].resizedUrl : k \in 1..Len(fs)} \ {NullUrl}

\* the object URLs removeFile(index) revokes itself
RemovedUrl(index) ==
    LET item == ItemAt(files, items, index)
    IN IF item.resizedUrl # NullUrl THEN {item.resizedUrl} ELSE {}

\* AdjustActive without the adjustment
KeepActive(active, len) == active

\* removeFile's adjustment of the active index, on the list after the splice
AdjustActive(active, len) == IF active >= len THEN len - 1 ELSE active

\* clearAll() on the file list fs, after `revoked` were revoked already
ClearAllFrom(fs, revoked) ==
    /\ urls' = Revoke(urls, revoked \cup UrlsOf(fs, items))
    /\ files' = <<>>
    /\ activeIndex' = 0
    /\ widthInput' = <<>>
    /\ heightInput' = <<>>
    /\ toast' = <<"All images cleared", 0>>
    /\ UNCHANGED <<items, aspectLocked, aspectRatio, originalWidth, originalHeight, outputFormat,
                   outputExt, overlay, tasks, picaInstance, quality, savedPercent, download>>

clearAll == ClearAllFrom(files, {})

\* removeFile(index), from the remove button of a row
removeFile(index) ==
    /\ index \in 0..(Len(files) - 1)
    /\ LET fs == Remove(files, index + 1)
       IN IF Len(fs) = 0
          THEN ClearAllFrom(fs, RemovedUrl(index))
          ELSE /\ urls' = Revoke(urls, RemovedUrl(index))
               /\ files' = fs
               /\ SetSelection(selectFile(AdjustActive(activeIndex, Len(fs)), fs, items,
                                          [Selection EXCEPT !.activeIndex =
                                               AdjustActive(activeIndex, Len(fs))]))
               /\ UNCHANGED <<items, aspectLocked, outputFormat, outputExt, overlay, toast, tasks,
                              picaInstance, quality, download>>

\* the reset button (and, for the properties, a resizeImage execution in
\* flight on the item notes that the item was reset)
ResetClick ==
    /\ activeIndex < Len(files)
    /\ LET id == files[activeIndex + 1]
           item == items[id]
       IN /\ urls' = Revoke(urls, IF item.resizedUrl # NullUrl THEN {item.resizedUrl} ELSE {})
          /\ items' = [items EXCEPT ![id].resizedBlob = NullBlob, ![id].resizedUrl = NullUrl]
          /\ SetSelection(selectFile(activeIndex, files, items', Selection))
          /\ toast' = <<"Image reset to original", 0>>
          /\ tasks' = [t \in TaskIds |->
                          IF tasks[t].pc \in PipelinePcs /\ tasks[t].item = id
                          THEN [tasks[t] EXCEPT !.resetSince = @ \cup {id}]
                          ELSE tasks[t]]
    /\ UNCHANGED <<files, aspectLocked, outputFormat, outputExt, overlay, picaInstance, quality,
                   download>>

\* ------------------------------------------------------ fields and options
\* the width field's input listener, after the user made the field read `text`
WidthInput(text) ==
    /\ widthInput' = text
    /\ LET w == ParseInt(text)
       IN IF aspectLocked /\ text # <<>> /\ ~w.nan
          THEN heightInput' = NumberText((CHOOSE row \in RoundedHeights :
                                             row[1] = w.val /\ row[2] = aspectRatio)[3])
          ELSE UNCHANGED heightInput
    /\ UNCHANGED <<files, items, activeIndex, aspectLocked, aspectRatio, originalWidth,
                   originalHeight, outputFormat, outputExt, overlay, toast, urls, tasks,
                   picaInstance, quality, savedPercent, download>>

\* the height field's input listener
HeightInput(text) ==
    /\ heightInput' = text
    /\ LET h == ParseInt(text)
       IN IF aspectLocked /\ text # <<>> /\ ~h.nan
          THEN widthInput' = NumberText((CHOOSE row \in RoundedWidths :
                                            row[1] = h.val /\ row[2] = aspectRatio)[3])
          ELSE UNCHANGED widthInput
    /\ UNCHANGED <<files, items, activeIndex, aspectLocked, aspectRatio, originalWidth,
                   originalHeight, outputFormat, outputExt, overlay, toast, urls, tasks,
                   picaInstance, quality, savedPercent, download>>

\* the aspect lock button
LockAspectClick ==
    /\ aspectLocked' = ~aspectLocked
    /\ toast' = IF aspectLocked' THEN <<"Aspect ratio locked", 0>> ELSE <<"Aspect ratio unlocked", 0>>
    /\ UNCHANGED <<files, items, activeIndex, aspectRatio, originalWidth, originalHeight,
                   outputFormat, outputExt, widthInput, heightInput, overlay, urls, tasks,
                   picaInstance, quality, savedPercent, download>>

\* a format button
FormatClick(btn) ==
    /\ outputFormat' = btn[1]
    /\ outputExt' = btn[2]
    /\ UNCHANGED <<files, items, activeIndex, aspectLocked, aspectRatio, originalWidth,
                   originalHeight, widthInput, heightInput, overlay, toast, urls, tasks,
                   picaInstance, quality, savedPercent, download>>

\* the quality slider; state.quality is val / 100, kept here as val
QualityInput(val) ==
    /\ quality' = val
    /\ UNCHANGED <<files, items, activeIndex, aspectLocked, aspectRatio, originalWidth,
                   originalHeight, outputFormat, outputExt, widthInput, heightInput, overlay,
                   toast, urls, tasks, picaInstance, savedPercent, download>>

\* ------------------------------------------------------------ validation
\* !x for a number
Falsy(x) == x.nan \/ x.val = 0

\* !targetW || !targetH || targetW < 1 || targetH < 1
InvalidDimensions(targetW, targetH) ==
    \/ Falsy(targetW)
    \/ Falsy(targetH)
    \/ (~targetW.nan /\ targetW.val < 1)
    \/ (~targetH.nan /\ targetH.val < 1)

\* OverLimit with the limit itself refused
OverLimitInclusive(targetW, targetH) ==
    \/ (~targetW.nan /\ targetW.val >= MaxDimension)
    \/ (~targetH.nan /\ targetH.val >= MaxDimension)

\* OverLimit checking the width alone
OverLimitWidthOnly(targetW, targetH) == ~targetW.nan /\ targetW.val > MaxDimension

\* targetW > 10000 || targetH > 10000
OverLimit(targetW, targetH) ==
    \/ (~targetW.nan /\ targetW.val > MaxDimension)
    \/ (~targetH.nan /\ targetH.val > MaxDimension)

\* ------------------------------------------------------------- resizeImage
\* resizeImage(item, targetW, targetH) up to its first await (the Image load)
BeginPipeline(task, id) == [task EXCEPT !.item = id, !.pc = "decode"]

\* the call of canvasToBlob(destCanvas, state.outputFormat, state.quality)
BeginEncode(task) == [task EXCEPT !.pc = "encode", !.fmt = outputFormat, !.quality = quality]

\* RevokedOnInstall without the revocation
NothingRevokedOnInstall(item) == {}

\* the object URL resizeImage revokes before it installs the new artifact
RevokedOnInstall(item) == IF item.resizedUrl # NullUrl THEN {item.resizedUrl} ELSE {}

\* item.resizedBlob = blob; item.resizedUrl = URL.createObjectURL(blob)
Installed(id, task, size) ==
    [items EXCEPT ![id].resizedBlob = [w |-> task.tw, h |-> task.th, fmt |-> task.fmt,
                                       quality |-> task.quality, size |-> size],
                  ![id].resizedUrl = Len(urls) + 1]

UrlsAfterInstall(id) ==
    Append(Revoke(urls, RevokedOnInstall(items[id])), [owner |-> id, revoked |-> FALSE])

\* --------------------------------------------------------- resizeCurrent
\* resizeCurrent() up to its first await
resizeCurrent ==
    /\ activeIndex < Len(files)
    /\ LET targetW == ParseInt(widthInput)
           targetH == ParseInt(heightInput)
       IN IF InvalidDimensions(targetW, targetH)
          THEN /\ toast' = <<"Please enter valid dimensions", 0>>
               /\ UNCHANGED <<overlay, tasks>>
          ELSE IF OverLimit(targetW, targetH)
          THEN /\ toast' = <<"Maximum dimension is 10,000px", 0>>
               /\ UNCHANGED <<overlay, tasks>>
          ELSE /\ HasFreeSlot
               /\ overlay' = TRUE
               /\ tasks' = [tasks EXCEPT ![FreeSlot] =
                              BeginPipeline([Idle EXCEPT !.kind = "resizeCurrent",
                                                         !.tw = targetW.val, !.th = targetH.val],
                                            files[activeIndex + 1])]
               /\ UNCHANGED toast
    /\ UNCHANGED <<files, items, activeIndex, aspectLocked, aspectRatio, originalWidth,
                   originalHeight, outputFormat, outputExt, widthInput, heightInput, urls,
                   picaInstance, quality, savedPercent, download>>

\* ResizeCurrentCatch that also drops the artifact the item held
ResizeCurrentCatchDropping(t) ==
    /\ overlay' = FALSE
    /\ toast' = <<"Error resizing image", 0>>
    /\ tasks' = [tasks EXCEPT ![t] = Idle]
    /\ urls' = Revoke(urls, RevokedOnInstall(items[tasks[t].item]))
    /\ items' = [items EXCEPT ![tasks[t].item].resizedBlob = NullBlob,
                              ![tasks[t].item].resizedUrl = NullUrl]
    /\ UNCHANGED <<files, activeIndex, aspectLocked, aspectRatio, originalWidth,
                   originalHeight, outputFormat, outputExt, widthInput, heightInput,
                   picaInstance, quality, savedPercent, download>>

\* the catch block of resizeCurrent
ResizeCurrentCatch(t) ==
    /\ overlay' = FALSE
    /\ toast' = <<"Error resizing image", 0>>
    /\ tasks' = [tasks EXCEPT ![t] = Idle]
    /\ UNCHANGED <<files, items, activeIndex, aspectLocked, aspectRatio, originalWidth,
                   originalHeight, outputFormat, outputExt, widthInput, heightInput, urls,
                   picaInstance, quality, savedPercent, download>>

\* -------------------------------------------------------------- resizeAll
\* LoopFrom walking the batch from its last item to its first
LoopFromBackwards(task, i, completed) ==
    IF i < Len(files)
    THEN BeginPipeline([task EXCEPT !.i = i, !.completed = completed,
                                    !.begun = Append(task.begun, Len(files) - 1 - i)],
                       files[Len(files) - i])
    ELSE [task EXCEPT !.i = i, !.completed = completed, !.item = 0, !.pc = "delay"]

\* The loop of resizeAll at index i with `completed` items done, on the batch
\* as it is now: the next resizeImage, or the delay after the loop.
LoopFrom(task, i, completed) ==
    IF i < Len(files)
    THEN BeginPipeline([task EXCEPT !.i = i, !.completed = completed,
                                    !.begun = Append(task.begun, i)],
                       files[i + 1])
    ELSE [task EXCEPT !.i = i, !.completed = completed, !.item = 0, !.pc = "delay"]

\* resizeAll() up to its first await
resizeAll ==
    /\ LET targetW == ParseInt(widthInput)
           targetH == ParseInt(heightInput)
       IN IF InvalidDimensions(targetW, targetH)
          THEN /\ toast' = <<"Please enter valid dimensions", 0>>
               /\ UNCHANGED <<overlay, tasks>>
          ELSE /\ HasFreeSlot
               /\ overlay' = TRUE
               /\ tasks' = [tasks EXCEPT ![FreeSlot] =
                              LoopFrom([Idle EXCEPT !.kind = "resizeAll", !.tw = targetW.val,
                                                    !.th = targetH.val,
                                                    !.startFormat = outputFormat,
                                                    !.startQuality = quality], 0, 0)]
               /\ UNCHANGED toast
    /\ UNCHANGED <<files, items, activeIndex, aspectLocked, aspectRatio, originalWidth,
                   originalHeight, outputFormat, outputExt, widthInput, heightInput, urls,
                   picaInstance, quality, savedPercent, download>>

\* ResizeAllCatch without its hideProcessing()
ResizeAllCatchOverlayLeft(t) ==
    /\ toast' = <<"Error during batch resize", 0>>
    /\ tasks' = [tasks EXCEPT ![t] = Idle]
    /\ UNCHANGED <<files, items, activeIndex, aspectLocked, aspectRatio, originalWidth,
                   originalHeight, outputFormat, outputExt, widthInput, heightInput, urls,
                   picaInstance, quality, savedPercent, download, overlay>>

\* the catch block of resizeAll
ResizeAllCatch(t) ==
    /\ overlay' = FALSE
    /\ toast' = <<"Error during batch resize", 0>>
    /\ tasks' = [tasks EXCEPT ![t] = Idle]
    /\ UNCHANGED <<files, items, activeIndex, aspectLocked, aspectRatio, originalWidth,
                   originalHeight, outputFormat, outputExt, widthInput, heightInput, urls,
                   picaInstance, quality, savedPercent, download>>

\* the catch block of the handler that awaits the pipeline of task t
Catch(t) == IF tasks[t].kind = "resizeCurrent" THEN ResizeCurrentCatch(t) ELSE ResizeAllCatch(t)

\* ------------------------------------------- the pipeline's awaits settle
\* The Image load of item.originalUrl settles.  Loaded: the source canvas is
\* drawn, and either pica.resize is awaited or the fallback scales at once
\* and canvasToBlob is called.
DecodeSettles(t, ok) ==
    /\ tasks[t].kind \in {"resizeCurrent", "resizeAll"}
    /\ tasks[t].pc = "decode"
    /\ IF ok
       THEN /\ tasks' = [tasks EXCEPT ![t] = IF picaInstance
                                             THEN [tasks[t] EXCEPT !.pc = "resample"]
                                             ELSE BeginEncode(tasks[t])]
            /\ UNCHANGED <<files, items, activeIndex, aspectLocked, aspectRatio, originalWidth,
                           originalHeight, outputFormat, outputExt, widthInput, heightInput,
                           overlay, toast, urls, picaInstance, quality, savedPercent, download>>
       ELSE Catch(t)

\* picaInstance.resize settles.
ResampleSettles(t, ok) ==
    /\ tasks[t].kind \in {"resizeCurrent", "resizeAll"}
    /\ tasks[t].pc = "resample"
    /\ IF ok
       THEN /\ tasks' = [tasks EXCEPT ![t] = BeginEncode(tasks[t])]
            /\ UNCHANGED <<files, items, activeIndex, aspectLocked, aspectRatio, originalWidth,
                           originalHeight, outputFormat, outputExt, widthInput, heightInput,
                           overlay, toast, urls, picaInstance, quality, savedPercent, download>>
       ELSE Catch(t)

\* canvasToBlob settles.  With a blob (of `size` bytes): the rest of
\* resizeImage, and the caller's code up to its next await.
EncodeSettles(t, ok, size) ==
    /\ tasks[t].kind \in {"resizeCurrent", "resizeAll"}
    /\ tasks[t].pc = "encode"
    /\ IF ok
       THEN /\ items' = Installed(tasks[t].item, tasks[t], size)
            /\ urls' = UrlsAfterInstall(tasks[t].item)
            /\ tasks' = [tasks EXCEPT ![t] =
                           IF tasks[t].kind = "resizeCurrent"
                           THEN [tasks[t] EXCEPT !.pc = "delay"]
                           ELSE LoopFrom(tasks[t], tasks[t].i + 1, tasks[t].completed + 1)]
            /\ UNCHANGED <<files, activeIndex, aspectLocked, aspectRatio, originalWidth,
                           originalHeight, outputFormat, outputExt, widthInput, heightInput,
                           overlay, toast, picaInstance, quality, savedPercent, download>>
       ELSE Catch(t)

\* delay(200) settles in resizeCurrent: the results are shown.  showResults
\* reads item.resizedBlob.size, which throws into the catch block when the
\* artifact was reset meanwhile.
ResizeCurrentShown(t) ==
    /\ tasks[t].kind = "resizeCurrent"
    /\ tasks[t].pc = "delay"
    /\ overlay' = FALSE
    /\ toast' = IF items[tasks[t].item].resizedBlob = NullBlob
                THEN <<"Error resizing image", 0>>
                ELSE <<"Image resized successfully!", 0>>
    /\ savedPercent' = IF items[tasks[t].item].resizedBlob = NullBlob
                       THEN savedPercent
                       ELSE showResults(items[tasks[t].item])
    /\ tasks' = [tasks EXCEPT ![t] = Idle]
    /\ UNCHANGED <<files, items, activeIndex, aspectLocked, aspectRatio, originalWidth,
                   originalHeight, outputFormat, outputExt, widthInput, heightInput, urls,
                   picaInstance, quality, download>>

\* delay(200) settles in resizeAll: the active file's view is refreshed.
ResizeAllShown(t) ==
    /\ tasks[t].kind = "resizeAll"
    /\ tasks[t].pc = "delay"
    /\ overlay' = FALSE
    /\ SetSelection(selectFile(activeIndex, files, items, Selection))
    /\ toast' = <<"All images resized!", tasks[t].completed>>
    /\ tasks' = [tasks EXCEPT ![t] = Idle]
    /\ UNCHANGED <<files, items, aspectLocked, outputFormat, outputExt, urls, picaInstance, quality, download>>

\* ---------------------------------------------------------------- download
\* name.replace(/\.[^.]+$/, ''): the name without its last dot and what
\* follows it, when something follows it
BaseName(name) ==
    LET dots == {p \in DOMAIN name : name[p] = "."}
    IN IF dots = {} THEN name
       ELSE LET last == CHOOSE p \in dots : \A q \in dots : q <= p
            IN IF last = Len(name) THEN name ELSE SubSeq(name, 1, last - 1)

\* `${x}` for a number
NumberString(x) == IF x.nan THEN <<"N", "a", "N">> ELSE NumberText(x.val)

\* `${baseName}_${w}x${h}.${state.outputExt}`, as its four parts
Filename(name, w, h, ext) == <<BaseName(name), NumberString(w), NumberString(h), ext>>

\* triggerDownload(url, filename)
triggerDownload(url, filename) == [url |-> url, filename |-> filename]

\* downloadCurrent()
downloadCurrent ==
    /\ IF files = <<>> \/ ItemAt(files, items, activeIndex).resizedBlob = NullBlob
       THEN /\ toast' = <<"No resized image to download. Resize first!", 0>>
            /\ UNCHANGED download
       ELSE LET item == ItemAt(files, items, activeIndex)
            IN /\ download' = triggerDownload(item.resizedUrl,
                                   Filename(item.name, ParseInt(widthInput),
                                            ParseInt(heightInput), outputExt))
               /\ toast' = <<"Download started!", 0>>
    /\ UNCHANGED <<files, items, activeIndex, aspectLocked, aspectRatio, originalWidth,
                   originalHeight, outputFormat, outputExt, widthInput, heightInput, overlay,
                   urls, tasks, picaInstance, quality, savedPercent>>

\* the body of downloadAll's loop for resizedFiles[i], up to its await
DownloadOf(task) ==
    LET item == items[task.resizedFiles[task.i + 1]]
    IN triggerDownload(item.resizedUrl, Filename(item.name, task.w, task.h, outputExt))

\* downloadAll() up to its first await
downloadAll ==
    LET resizedFiles == SelectSeq(files, LAMBDA id : items[id].resizedBlob # NullBlob)
        task == [Idle EXCEPT !.kind = "downloadAll", !.pc = "delay",
                             !.resizedFiles = resizedFiles, !.i = 0,
                             !.w = ParseInt(widthInput), !.h = ParseInt(heightInput)]
    IN /\ IF resizedFiles = <<>>
          THEN /\ toast' = <<"No resized images to download", 0>>
               /\ UNCHANGED <<overlay, tasks, download>>
          ELSE /\ HasFreeSlot
               /\ overlay' = TRUE
               /\ download' = DownloadOf(task)
               /\ tasks' = [tasks EXCEPT ![FreeSlot] = task]
               /\ UNCHANGED toast
       /\ UNCHANGED <<files, items, activeIndex, aspectLocked, aspectRatio, originalWidth,
                      originalHeight, outputFormat, outputExt, widthInput, heightInput, urls,
                      picaInstance, quality, savedPercent>>

\* delay(300) settles in downloadAll: the next file, or the end of the loop
DownloadDelaySettles(t) ==
    /\ tasks[t].kind = "downloadAll"
    /\ tasks[t].pc = "delay"
    /\ IF tasks[t].i + 1 < Len(tasks[t].resizedFiles)
       THEN /\ download' = DownloadOf([tasks[t] EXCEPT !.i = @ + 1])
            /\ tasks' = [tasks EXCEPT ![t].i = @ + 1]
            /\ UNCHANGED <<overlay, toast>>
       ELSE /\ overlay' = FALSE
            /\ toast' = <<"images downloaded!", Len(tasks[t].resizedFiles)>>
            /\ tasks' = [tasks EXCEPT ![t] = Idle]
            /\ UNCHANGED download
    /\ UNCHANGED <<files, items, activeIndex, aspectLocked, aspectRatio, originalWidth,
                   originalHeight, outputFormat, outputExt, widthInput, heightInput, urls,
                   picaInstance, quality, savedPercent>>

\* --------------------------------------------------------- specifications
\* The script bounds neither the batch nor the object URLs it creates.  Each
\* specification below explores the handlers it names up to a number of
\* decoded files and of created object URLs: a submission is made only while
\* its files fit, and once the URLs are used up canvasToBlob only fails.
CanLoad(fileList, maxItems) ==
    Len(items) + PendingLoads + Len(SelectSeq(fileList, Accepts)) <= maxItems

EncodeOutcomes(maxUrls) == IF Len(urls) < maxUrls THEN BOOLEAN ELSE {FALSE}

\* a single size for the blobs
OneSize == {600}

\* no handler invocation is suspended
Quiet == \A t \in TaskIds : tasks[t].kind = "idle"

\* ---- SpecLoad: loading, selecting, removing, clearing, resetting, resizing one
LoadItems == 2
LoadUrls == 2

NextLoad ==
    \/ \E fileList \in Submissions : CanLoad(fileList, LoadItems) /\ handleFiles(fileList)
    \/ \E t \in TaskIds : LoadSettles(t)
    \/ \E index \in 0..(Len(files) - 1) : SelectClick(index)
    \/ \E index \in 0..(Len(files) - 1) : removeFile(index)
    \/ clearAll
    \/ ResetClick
    \/ resizeCurrent
    \/ \E t \in TaskIds, ok \in BOOLEAN : DecodeSettles(t, ok)
    \/ \E t \in TaskIds, ok \in BOOLEAN : ResampleSettles(t, ok)
    \/ \E t \in TaskIds, ok \in EncodeOutcomes(LoadUrls), size \in OneSize : EncodeSettles(t, ok, size)
    \/ \E t \in TaskIds : ResizeCurrentShown(t)

SpecLoad == Init /\ [][NextLoad]_vars

\* submissions of decodable files of one kind
PlainSubmissions == SeqsUpTo({FileA}, MaxSubmit) \ {<<>>}

\* ---- SpecDims: the dimension fields and the validation of both resize handlers
DimsItems == 1
DimsUrls == 1

NextDims ==
    \/ \E fileList \in {<<FileB>>} : Quiet /\ CanLoad(fileList, DimsItems) /\ handleFiles(fileList)
    \/ \E t \in TaskIds : LoadSettles(t)
    \/ \E text \in FieldTexts : WidthInput(text)
    \/ \E text \in FieldTexts : HeightInput(text)
    \/ LockAspectClick
    \/ Quiet /\ resizeCurrent
    \/ Quiet /\ resizeAll
    \/ \E t \in TaskIds, ok \in BOOLEAN : DecodeSettles(t, ok)
    \/ \E t \in TaskIds, ok \in BOOLEAN : ResampleSettles(t, ok)
    \/ \E t \in TaskIds, ok \in EncodeOutcomes(DimsUrls), size \in OneSize : EncodeSettles(t, ok, size)
    \/ \E t \in TaskIds : ResizeCurrentShown(t)
    \/ \E t \in TaskIds : ResizeAllShown(t)

SpecDims == Init /\ [][NextDims]_vars

\* ---- SpecUrls: resizing against removing, clearing and resetting
UrlsItems == 2
UrlsUrls == 2

NextUrls ==
    \/ \E fileList \in PlainSubmissions : Quiet /\ CanLoad(fileList, UrlsItems) /\ handleFiles(fileList)
    \/ \E t \in TaskIds : LoadSettles(t)
    \/ \E index \in 0..(Len(files) - 1) : SelectClick(index)
    \/ \E index \in 0..(Len(files) - 1) : removeFile(index)
    \/ clearAll
    \/ ResetClick
    \/ resizeCurrent
    \/ resizeAll
    \/ \E t \in TaskIds, ok \in BOOLEAN : DecodeSettles(t, ok)
    \/ \E t \in TaskIds, ok \in BOOLEAN : ResampleSettles(t, ok)
    \/ \E t \in TaskIds, ok \in EncodeOutcomes(UrlsUrls), size \in OneSize : EncodeSettles(t, ok, size)
    \/ \E t \in TaskIds : ResizeCurrentShown(t)
    \/ \E t \in TaskIds : ResizeAllShown(t)

SpecUrls == Init /\ [][NextUrls]_vars

\* ---- SpecBatch: resizeAll over a batch of three
BatchItems == 3
BatchUrls == 3

NextBatch ==
    \/ \E fileList \in PlainSubmissions : Quiet /\ CanLoad(fileList, BatchItems) /\ handleFiles(fileList)
    \/ \E t \in TaskIds : LoadSettles(t)
    \/ \E index \in 0..(Len(files) - 1) : removeFile(index)
    \/ resizeAll
    \/ \E t \in TaskIds, ok \in BOOLEAN : DecodeSettles(t, ok)
    \/ \E t \in TaskIds, ok \in BOOLEAN : ResampleSettles(t, ok)
    \/ \E t \in TaskIds, ok \in EncodeOutcomes(BatchUrls), size \in OneSize : EncodeSettles(t, ok, size)
    \/ \E t \in TaskIds : ResizeAllShown(t)

SpecBatch == Init /\ [][NextBatch]_vars

\* ---- SpecFormat: the format buttons and the quality slider against resizeAll
FormatItems == 2
FormatUrls == 2

NextFormat ==
    \/ \E fileList \in PlainSubmissions : Quiet /\ CanLoad(fileList, FormatItems) /\ handleFiles(fileList)
    \/ \E t \in TaskIds : LoadSettles(t)
    \/ \E btn \in FormatButtons : FormatClick(btn)
    \/ \E val \in QualityValues : QualityInput(val)
    \/ Quiet /\ resizeAll
    \/ \E t \in TaskIds, ok \in BOOLEAN : DecodeSettles(t, ok)
    \/ \E t \in TaskIds, ok \in BOOLEAN : ResampleSettles(t, ok)
    \/ \E t \in TaskIds, ok \in EncodeOutcomes(FormatUrls), size \in OneSize : EncodeSettles(t, ok, size)
    \/ \E t \in TaskIds : ResizeAllShown(t)

SpecFormat == Init /\ [][NextFormat]_vars

\* ---- SpecAspect: the dimension fields under the aspect lock
AspectItems == 2

\* one decodable file at a time, of the shape 18:7 or 2:1
ShapedSubmissions == {<<FileC>>, <<FileA>>}

NextAspect ==
    \/ \E fileList \in ShapedSubmissions : Quiet /\ CanLoad(fileList, AspectItems) /\ handleFiles(fileList)
    \/ \E t \in TaskIds : LoadSettles(t)
    \/ \E index \in 0..(Len(files) - 1) : SelectClick(index)
    \/ \E text \in AspectTexts : WidthInput(text)
    \/ \E text \in AspectTexts : HeightInput(text)
    \/ LockAspectClick

SpecAspect == Init /\ [][NextAspect]_vars

\* ---- SpecDownload: downloads after resizing, editing, selecting
DownloadItems == 2
DownloadUrls == 2

\* what is typed into a field between a resize and a download
DownloadTexts == {<<"9">>}

NextDownload ==
    \/ \E fileList \in {<<FileA>>} : Quiet /\ CanLoad(fileList, DownloadItems) /\ handleFiles(fileList)
    \/ \E t \in TaskIds : LoadSettles(t)
    \/ \E index \in 0..(Len(files) - 1) : SelectClick(index)
    \/ \E text \in DownloadTexts : WidthInput(text)
    \/ \E btn \in FormatButtons : FormatClick(btn)
    \/ Quiet /\ resizeCurrent
    \/ Quiet /\ resizeAll
    \/ \E t \in TaskIds : DecodeSettles(t, TRUE)
    \/ \E t \in TaskIds : ResampleSettles(t, TRUE)
    \/ \E t \in TaskIds, ok \in EncodeOutcomes(DownloadUrls), size \in OneSize : EncodeSettles(t, ok, size)
    \/ \E t \in TaskIds : ResizeCurrentShown(t)
    \/ \E t \in TaskIds : ResizeAllShown(t)
    \/ Quiet /\ downloadCurrent
    \/ Quiet /\ downloadAll
    \/ \E t \in TaskIds : DownloadDelaySettles(t)

SpecDownload == Init /\ [][NextDownload]_vars

\* ---- SpecStats: the size comparison shown after a resize
StatsItems == 2
StatsUrls == 2

NextStats ==
    \/ \E fileList \in ShapedSubmissions : Quiet /\ CanLoad(fileList, StatsItems) /\ handleFiles(fileList)
    \/ \E t \in TaskIds : LoadSettles(t)
    \/ \E index \in 0..(Len(files) - 1) : SelectClick(index)
    \/ Quiet /\ resizeCurrent
    \/ \E t \in TaskIds, ok \in BOOLEAN : DecodeSettles(t, ok)
    \/ \E t \in TaskIds, ok \in BOOLEAN : ResampleSettles(t, ok)
    \/ \E t \in TaskIds, ok \in EncodeOutcomes(StatsUrls), size \in BlobSizes : EncodeSettles(t, ok, size)
    \/ \E t \in TaskIds : ResizeCurrentShown(t)

SpecStats == Init /\ [][NextStats]_vars

\* ---- SpecOverlay: the processing overlay over the four handlers that show it
OverlayItems == 1
OverlayUrls == 1

\* a file that decodes and one whose decode fails
OverlaySubmissions == {<<FileA>>, <<FileBad>>}

NextOverlay ==
    \/ \E fileList \in OverlaySubmissions : CanLoad(fileList, OverlayItems) /\ handleFiles(fileList)
    \/ \E t \in TaskIds : LoadSettles(t)
    \/ \E index \in 0..(Len(files) - 1) : removeFile(index)
    \/ ResetClick
    \/ resizeCurrent
    \/ resizeAll
    \/ \E t \in TaskIds, ok \in BOOLEAN : DecodeSettles(t, ok)
    \/ \E t \in TaskIds, ok \in BOOLEAN : ResampleSettles(t, ok)
    \/ \E t \in TaskIds, ok \in EncodeOutcomes(OverlayUrls), size \in OneSize : EncodeSettles(t, ok, size)
    \/ \E t \in TaskIds : ResizeCurrentShown(t)
    \/ \E t \in TaskIds : ResizeAllShown(t)
    \/ downloadAll
    \/ \E t \in TaskIds : DownloadDelaySettles(t)

SpecOverlay == Init /\ [][NextOverlay]_vars

\* Every promise a handler awaits settles: loadImage, the Image load,
\* pica.resize and canvasToBlob resolve or reject, and delay resolves.
AwaitsSettle ==
    \A t \in TaskIds :
        /\ WF_vars(LoadSettles(t))
        /\ WF_vars(\E ok \in BOOLEAN : DecodeSettles(t, ok))
        /\ WF_vars(\E ok \in BOOLEAN : ResampleSettles(t, ok))
        /\ WF_vars(\E ok \in EncodeOutcomes(OverlayUrls), size \in OneSize : EncodeSettles(t, ok, size))
        /\ WF_vars(ResizeCurrentShown(t))
        /\ WF_vars(ResizeAllShown(t))
        /\ WF_vars(DownloadDelaySettles(t))

FairSpecOverlay == SpecOverlay /\ AwaitsSettle

\* ===================================================================== claims
Range(f) == {f[k] : k \in DOMAIN f}

\* the object URLs made for item id that are not revoked
LiveUrls(id) == {u \in DOMAIN urls : urls[u].owner = id /\ ~urls[u].revoked}

\* ---- C1 (SpecBatch)
\* C1: when a resizeAll invocation over a batch from which nothing was removed
\* ends on a pipeline failure at item k, every other item of the batch holds
\* a resized artifact (the items after k were still attempted) and all but
\* one of the items were counted as completed.
C1_BatchSurvivesFailure ==
    [][\A t \in TaskIds :
          ( /\ tasks[t].kind = "resizeAll"
            /\ tasks[t].pc \in PipelinePcs
            /\ tasks'[t].kind = "idle"
            /\ Len(files) = Len(items) )
          => /\ \A k \in 1..Len(files') :
                   k # tasks[t].i + 1 => items'[files'[k]].resizedBlob # NullBlob
             /\ tasks[t].completed = Len(files') - 1]_vars

\* ---- C10 (SpecBatch)
\* C10: a resizeAll invocation begins its pipelines at the indices 0, 1, 2, ...
\* in this order, and it begins the next one only in the step in which the
\* encode of the previous one settled and its artifact was installed.
C10_BatchInOrder ==
    [][\A t \in TaskIds :
          (tasks'[t].kind = "resizeAll" /\ Len(tasks'[t].begun) > Len(tasks[t].begun))
          => /\ tasks'[t].begun = Append(tasks[t].begun, Len(tasks[t].begun))
             /\ tasks'[t].pc = "decode"
             /\ tasks'[t].item = files[Len(tasks'[t].begun)]
             /\ tasks[t].kind = "resizeAll"
                => /\ tasks[t].pc = "encode"
                   /\ Len(urls') = Len(urls) + 1
                   /\ items'[tasks[t].item].resizedUrl = Len(urls')
                   /\ ~urls'[Len(urls')].revoked
                   /\ tasks'[t].completed = Len(tasks[t].begun)]_vars

\* a resizeAll invocation has begun its third pipeline
C10_Witness ==
    \E t \in TaskIds : tasks[t].kind = "resizeAll" /\ tasks[t].begun = <<0, 1, 2>>

\* ---- C2 (SpecDims)
\* C2: resizeAll never invokes resizeImage with a target width or height
\* above 10,000.
C2_ResizeAllRejectsOverLimit ==
    \A t \in TaskIds :
        (tasks[t].kind = "resizeAll" /\ tasks[t].pc \in PipelinePcs)
        => tasks[t].tw <= 10000 /\ tasks[t].th <= 10000

\* ---- C3 (SpecDims)
\* C3: resizeCurrent starts the pipeline for the active item exactly when both
\* parsed fields are integers from 1 to 10,000; a rejected call changes no
\* item, no object URL and starts nothing.
C3_ResizeCurrentValidates ==
    [][LET w == ParseInt(widthInput)
           h == ParseInt(heightInput)
           inRange == /\ ~w.nan /\ 1 <= w.val /\ w.val <= 10000
                      /\ ~h.nan /\ 1 <= h.val /\ h.val <= 10000
           started == \E t \in TaskIds :
                         /\ tasks[t].kind = "idle"
                         /\ tasks'[t].kind = "resizeCurrent"
                         /\ tasks'[t].pc = "decode"
                         /\ tasks'[t].item = files[activeIndex + 1]
                         /\ tasks'[t].tw = w.val
                         /\ tasks'[t].th = h.val
       IN /\ (\E t \in TaskIds : tasks[t].kind = "idle" /\ tasks'[t].kind = "resizeCurrent")
             => (inRange /\ started)
          /\ (resizeCurrent /\ inRange) => started
          /\ (resizeCurrent /\ ~inRange) => UNCHANGED <<files, items, urls, tasks, overlay>>]_vars

\* a call with 10001 was refused, and a call with 10000 x 10000 is in flight
C3_Witness ==
    /\ toast = <<"Maximum dimension is 10,000px", 0>>
    /\ \E t \in TaskIds :
          tasks[t].kind = "resizeCurrent" /\ tasks[t].tw = 10000 /\ tasks[t].th = 10000

\* ---- C4 (SpecUrls)
\* C4: every object URL made for an item that is no longer in the batch is
\* revoked, and no item of the batch stores it.
C4_RemovedItemsReleased ==
    \A u \in DOMAIN urls :
        urls[u].owner \notin Range(files)
        => /\ urls[u].revoked
           /\ \A id \in Range(files) : items[id].resizedUrl # u

\* ---- C5 (SpecUrls)
\* C5: of the object URLs made for an item at most one is not revoked, and it
\* is the one the item stores in resizedUrl.
C5_OneLiveArtifact ==
    \A id \in DOMAIN items :
        /\ Cardinality(LiveUrls(id)) <= 1
        /\ LiveUrls(id) \subseteq {items[id].resizedUrl}

\* an item of the batch was resized twice with the same parameters: its first
\* URL is revoked and it stores the second
C5_Witness ==
    \E id \in Range(files) :
        /\ Len(urls) = 2
        /\ urls[1] = [owner |-> id, revoked |-> TRUE]
        /\ urls[2] = [owner |-> id, revoked |-> FALSE]
        /\ items[id].resizedUrl = 2
        /\ items[id].resizedBlob =
              [w |-> 4, h |-> 2, fmt |-> "image/jpeg", quality |-> 90, size |-> 600]

\* ---- C9 (SpecUrls)
\* C9: a resizeCurrent invocation changes items and object URLs only in the
\* step in which its encode succeeds; an invocation whose pipeline fails
\* therefore leaves resizedBlob and resizedUrl of its item as they were and
\* revokes nothing.  (A step of the invocation is one that changes what the
\* invocation holds, the note of a reset aside, which the reset button writes.)
C9_FailureLeavesArtifact ==
    [][\A t \in TaskIds :
          ( /\ tasks[t].kind = "resizeCurrent" \/ tasks'[t].kind = "resizeCurrent"
            /\ [tasks'[t] EXCEPT !.resetSince = {}] # [tasks[t] EXCEPT !.resetSince = {}]
            /\ ~(tasks[t].pc = "encode" /\ tasks'[t].pc = "delay") )
          => UNCHANGED <<items, urls>>]_vars

\* resizeCurrent failed on an active item that holds an artifact
C9_Witness ==
    /\ Quiet
    /\ toast = <<"Error resizing image", 0>>
    /\ activeIndex < Len(files)
    /\ ItemAt(files, items, activeIndex).resizedBlob # NullBlob
    /\ LiveUrls(files[activeIndex + 1]) = {ItemAt(files, items, activeIndex).resizedUrl}

\* ---- C6 (SpecLoad)
\* C6: whenever the batch is not empty the active index is an index of it.
C6_ActiveIndexValid ==
    Len(files) > 0 => (0 <= activeIndex /\ activeIndex < Len(files))

\* an item was removed and the last item of the batch is active
C6_Witness ==
    /\ Len(items) = 2
    /\ Len(files) = 1
    /\ files = <<1>>
    /\ activeIndex = 0
    /\ originalWidth = items[1].naturalWidth

\* ---- C7 (SpecLoad)
\* C7: whenever no handler is suspended and the batch is not empty,
\* aspectRatio is naturalWidth / naturalHeight of the active item, and
\* originalWidth and originalHeight are its dimensions.
C7_AspectRatioOfActive ==
    (Quiet /\ Len(files) > 0 /\ activeIndex < Len(files))
    => LET item == ItemAt(files, items, activeIndex)
       IN /\ aspectRatio[1] * item.naturalHeight = aspectRatio[2] * item.naturalWidth
          /\ originalWidth = item.naturalWidth
          /\ originalHeight = item.naturalHeight

\* ---- C8 (SpecLoad)
\* C8: every step of a handleFiles invocation appends the file it was loading
\* to the end of state.files if the file decodes and leaves state.files alone
\* otherwise; when the invocation ends, the items it appended are the
\* submitted files of an allowed type, of at most 50 MiB and decodable, in
\* the order of the submission.
NamesOf(fileSeq) == [k \in DOMAIN fileSeq |-> fileSeq[k].name]

Loadable(file) ==
    /\ file.type \in {"image/jpeg", "image/png", "image/webp", "image/gif", "image/bmp", "image/tiff"}
    /\ file.size <= 50 * 1024 * 1024
    /\ file.decodes

C8_ExactlyTheLoadable ==
    [][\A t \in TaskIds :
          (tasks[t].kind = "handleFiles" /\ tasks'[t] # tasks[t])
          => LET file == tasks[t].newFiles[tasks[t].i + 1]
                 appended == IF file.decodes
                             THEN Append(tasks[t].appended, Len(items'))
                             ELSE tasks[t].appended
             IN /\ IF file.decodes
                   THEN /\ items' = Append(items, items'[Len(items')])
                        /\ files' = Append(files, Len(items'))
                        /\ items'[Len(items')].name = file.name
                   ELSE items' = items /\ files' = files
                /\ tasks'[t].kind = "handleFiles" => tasks'[t].appended = appended
                /\ tasks'[t].kind = "idle"
                   => [k \in DOMAIN appended |-> items'[appended[k]].name]
                        = NamesOf(SelectSeq(tasks[t].submitted, Loadable))]_vars

\* a submission of two files of allowed type and size ended with one of them
\* loaded and the other one failed to decode
C8_Witness ==
    /\ Quiet
    /\ toast = <<"Images loaded", 2>>
    /\ Len(items) = 1
    /\ Len(files) = 1


\* ---- C11 (SpecUrls)
\* the resizeImage executions between their start and their completion or
\* failure
InFlightPipelines ==
    {t \in TaskIds : tasks[t].kind \in {"resizeCurrent", "resizeAll"} /\ tasks[t].pc \in PipelinePcs}

\* C11: at most one resize pipeline is in flight at any time, over every
\* sequence of resize-one and resize-all requests made through the handlers.
C11_OnePipelineInFlight == Cardinality(InFlightPipelines) <= 1


\* ---- C12 (SpecFormat)
\* C12: every artifact a resizeAll invocation installs has the target width
\* and height, the output format and the quality that were selected when the
\* invocation started, also when a format button or the quality slider is
\* used while the batch is in flight.
C12_BatchUsesStartSettings ==
    [][\A t \in TaskIds :
          ( /\ tasks[t].kind = "resizeAll"
            /\ tasks[t].pc = "encode"
            /\ tasks'[t] # tasks[t]
            /\ Len(urls') = Len(urls) + 1 )
          => LET blob == items'[tasks[t].item].resizedBlob
             IN /\ blob.w = tasks[t].tw
                /\ blob.h = tasks[t].th
                /\ blob.fmt = tasks[t].startFormat
                /\ blob.quality = tasks[t].startQuality]_vars


\* ---- C13 (SpecAspect)
\* the integer nearest to p / q for q > 0, a half goes upwards
RoundDiv(p, q) == (2 * p + q) \div (2 * q)

\* C13: with the aspect lock on and an active item of natural size W x H,
\* making the width field read a positive integer w sets the height field to
\* round(w * H / W), and making the height field read a positive integer h
\* sets the width field to round(h * W / H).
C13_AspectLockRounds ==
    [][\A text \in AspectTexts :
          ( /\ aspectLocked
            /\ files # <<>>
            /\ ~ParseInt(text).nan
            /\ ParseInt(text).val > 0 )
          => LET W == ItemAt(files, items, activeIndex).naturalWidth
                 H == ItemAt(files, items, activeIndex).naturalHeight
                 n == ParseInt(text).val
             IN /\ WidthInput(text) => heightInput' = NumberText(RoundDiv(n * H, W))
                /\ HeightInput(text) => widthInput' = NumberText(RoundDiv(n * W, H))]_vars


\* ---- C14 (SpecUrls)
\* C14: the reset action leaves the active item without a resized artifact
\* (resizedBlob and resizedUrl null) and with the object URL it held revoked,
\* and the other items as they were; and the item gets no artifact from a
\* resize that was requested before the reset.
C14_ResetClearsUntilNextResize ==
    [][ /\ (ResetClick /\ files # <<>>)
            => LET id == files[activeIndex + 1]
               IN /\ items'[id].resizedBlob = NullBlob
                  /\ items'[id].resizedUrl = NullUrl
                  /\ items[id].resizedUrl # NullUrl => urls'[items[id].resizedUrl].revoked
                  /\ \A other \in DOMAIN items : other # id => items'[other] = items[other]
        /\ \A t \in TaskIds :
              ( /\ tasks[t].pc = "encode"
                /\ tasks'[t] # tasks[t]
                /\ Len(urls') = Len(urls) + 1 )
              => tasks[t].item \notin tasks[t].resetSince ]_vars

\* the reset action itself does what C14 says
C14_ResetEffect ==
    [][ (ResetClick /\ files # <<>>)
            => LET id == files[activeIndex + 1]
               IN /\ items'[id].resizedBlob = NullBlob
                  /\ items'[id].resizedUrl = NullUrl
                  /\ items[id].resizedUrl # NullUrl => urls'[items[id].resizedUrl].revoked
                  /\ \A other \in DOMAIN items : other # id => items'[other] = items[other] ]_vars


\* ---- C15 (SpecDownload)
\* data-ext of the button of a format
ExtOf(fmt) == (CHOOSE btn \in FormatButtons : btn[1] = fmt)[2]

\* {originalBaseName}_{targetWidth}x{targetHeight}.{formatExtension} of the
\* artifact item id holds
ArtifactFilename(id) ==
    <<BaseName(items[id].name), NumberText(items[id].resizedBlob.w),
      NumberText(items[id].resizedBlob.h), ExtOf(items[id].resizedBlob.fmt)>>

\* C15: every download, by downloadCurrent or for a file of downloadAll, is
\* of the item's resized artifact under the name built from the item's base
\* name and the artifact's own width, height and format, whatever was edited
\* or selected between the resize and the download.
C15_FilenameOfArtifact ==
    [][ /\ (downloadCurrent /\ download' # download)
            => download' = triggerDownload(ItemAt(files, items, activeIndex).resizedUrl,
                                           ArtifactFilename(files[activeIndex + 1]))
        /\ \A t \in TaskIds :
              (tasks[t].kind = "idle" /\ tasks'[t].kind = "downloadAll")
              => LET id == tasks'[t].resizedFiles[1]
                 IN download' = triggerDownload(items[id].resizedUrl, ArtifactFilename(id))
        /\ \A t \in TaskIds :
              (tasks[t].kind = "downloadAll" /\ tasks'[t].kind = "downloadAll")
              => LET id == tasks'[t].resizedFiles[tasks'[t].i + 1]
                 IN download' = triggerDownload(items[id].resizedUrl, ArtifactFilename(id)) ]_vars


\* ---- C16 (SpecStats)
\* the number of tenths a text "d...d.d" reads
TenthsOf(text) ==
    10 * ParseInt(SubSeq(text, 1, Len(text) - 2)).val + DigitVal(text[Len(text)])

Distance(a, b) == IF a < b THEN b - a ELSE a - b

\* shown = <<text, direction>> is the comparison of o bytes with r bytes:
\* "smaller" when r < o and "larger" when r > o, the text being 100 * |o - r| / o
\* to one decimal place (a tenth nearest to it)
ComparisonOf(o, r, shown) ==
    /\ Len(shown[1]) >= 3
    /\ shown[1][Len(shown[1]) - 1] = "."
    /\ r < o => shown[2] = "smaller"
    /\ r > o => shown[2] = "larger"
    /\ Distance(2 * o * TenthsOf(shown[1]), 2000 * Distance(o, r)) <= o

\* C16: for an original of o > 0 bytes and a resized blob of r bytes the
\* size comparison shown reports "smaller" when r < o and "larger" when
\* r > o, with the percentage of the difference relative to o, to one
\* decimal place; for (1000, 600) 40.0 smaller, for (1000, 1500) 50.0 larger.
C16_SavingsShown ==
    [][ /\ \A t \in TaskIds :
              (ResizeCurrentShown(t) /\ items[tasks[t].item].resizedBlob # NullBlob)
              => LET item == items[tasks[t].item]
                 IN /\ ComparisonOf(item.originalSize, item.resizedBlob.size, savedPercent')
                    /\ (item.originalSize = 1000 /\ item.resizedBlob.size = 600)
                           => savedPercent' = <<<<"4", "0", ".", "0">>, "smaller">>
                    /\ (item.originalSize = 1000 /\ item.resizedBlob.size = 1500)
                           => savedPercent' = <<<<"5", "0", ".", "0">>, "larger">>
        /\ \A index \in 0..(Len(files) - 1) :
              (SelectClick(index) /\ ItemAt(files, items, index).resizedBlob # NullBlob)
              => LET item == ItemAt(files, items, index)
                 IN ComparisonOf(item.originalSize, item.resizedBlob.size, savedPercent') ]_vars

\* a resize of the 1000-byte image to a blob of 600 bytes was shown
C16_Witness ==
    /\ files # <<>>
    /\ Quiet
    /\ ItemAt(files, items, activeIndex).originalSize = 1000
    /\ ItemAt(files, items, activeIndex).resizedBlob.size = 600
    /\ savedPercent = <<<<"4", "0", ".", "0">>, "smaller">>
    /\ toast = <<"Image resized successfully!", 0>>


\* ---- C17 (SpecBatch)
\* C17: when a resizeAll invocation ends without a pipeline error, every
\* item that is in the batch then holds a resized artifact and the count it
\* reports is the number of items in the batch, whatever was removed while
\* the invocation ran.
C17_BatchCompleteForAll ==
    [][\A t \in TaskIds :
          ResizeAllShown(t)
          => /\ \A k \in DOMAIN files : items[files[k]].resizedBlob # NullBlob
             /\ toast' = <<"All images resized!", Len(files)>>]_vars


\* ---- C18 (SpecLoad)
\* the items handleFiles invocation t has loaded once its pending loadImage
\* has settled
LoadedBy(t) ==
    IF Len(items') > Len(items) THEN Append(tasks[t].appended, Len(items')) ELSE tasks[t].appended

\* C18: when handleFiles finishes a submission of which at least one file
\* was loaded (and is still in the batch), the active item is the first item
\* that submission loaded.
C18_FirstLoadedIsActive ==
    [][\A t \in TaskIds :
          ( /\ tasks[t].kind = "handleFiles"
            /\ tasks'[t].kind = "idle"
            /\ LoadedBy(t) # <<>>
            /\ LoadedBy(t)[1] \in Range(files') )
          => /\ activeIndex' \in 0..(Len(files') - 1)
             /\ files'[activeIndex' + 1] = LoadedBy(t)[1]]_vars


\* ---- C19 (SpecBatch)
\* C19: removeFile(index) for an index other than the active one leaves the
\* same item active (the item at activeIndex afterwards is the item that was
\* at activeIndex before), and the remaining items keep their order.
C19_RemoveKeepsActiveItem ==
    [][\A index \in 0..(Len(files) - 1) :
          ( /\ removeFile(index)
            /\ activeIndex \in 0..(Len(files) - 1)
            /\ index # activeIndex )
          => /\ files' = Remove(files, index + 1)
             /\ activeIndex' \in 0..(Len(files') - 1)
             /\ files'[activeIndex' + 1] = files[activeIndex + 1]]_vars


\* ---- C20 (FairSpecOverlay)
\* the handlers that call showProcessing
OverlayKinds == {"handleFiles", "resizeCurrent", "resizeAll", "downloadAll"}

\* C20: every invocation of handleFiles, resizeCurrent, resizeAll or
\* downloadAll that has shown the overlay comes to its end, given that what
\* it awaits settles, and hides the overlay there, on its success path and
\* in its catch block alike; so the overlay is hidden whenever no such
\* invocation is in flight.
C20_OverlayEventuallyHidden ==
    /\ [](Quiet => ~overlay)
    /\ [][\A t \in TaskIds :
             (tasks[t].kind \in OverlayKinds /\ tasks'[t].kind = "idle") => ~overlay']_vars
    /\ \A t \in TaskIds : (tasks[t].kind \in OverlayKinds) ~> (tasks[t].kind = "idle")
    /\ overlay ~> ~overlay

\* a downloadAll invocation has ended and no handler is in flight
C20_Witness ==
    /\ Quiet
    /\ ~overlay
    /\ toast = <<"images downloaded!", 1>>

=============================================================================
